---- MODULE Spec2Model ----
(***************************************************************************)
(* The data-access layer of the invention tracker (server/storage.ts and   *)
(* its drafts), the table definitions of shared/schema.ts and the request  *)
(* handlers of server/routes.ts, as a state machine over the five tables.  *)
(*                                                                         *)
(* An optional value (a nullable column, an absent request field, the      *)
(* undefined a lookup returns) is a sequence of length 0 or 1.             *)
(***************************************************************************)
EXTENDS Integers, Sequences, FiniteSets, TLC

VARIABLES users, inventions, files, comments, likes, nextId, now, response, calls

vars == <<users, inventions, files, comments, likes, nextId, now, response, calls>>

-----------------------------------------------------------------------------
(* Bounds of the model *)

NumUsers == 2
MaxInventions == 2
MaxToggleInventions == 1
MaxLikeId == 3
MaxClock == 3
MaxComments == 2
MaxFiles == 2
MaxStatsInventions == 5
NumProcs == 2
NumRaceUsers == 1
MaxRaceInventions == 1
MaxRaceLikeId == 3
MaxStatusInventions == 1
MaxStatusClock == 3
MaxDetailInventions == 2
MaxDetailFiles == 1
MaxDetailComments == 2
MaxDetailLikeId == 1
MaxDeleteInventions == 2
MaxDeleteFiles == 1
MaxDeleteComments == 2
MaxDeleteLikeId == 2
MaxAuthorInventions == 2
MaxFrameInventions == 2
MaxFrameFiles == 1
MaxFrameComments == 1
MaxFrameLikeId == 2
MaxFrameClock == 3
MaxCreateInventions == 2
MaxCreateFiles == 2

\* varchar("original_name", { length: 255 })
MaxOriginalName == 255

AllUserIds == <<"u1", "u2", "u3", "u4", "u5">>
UserIds == {AllUserIds[k] : k \in 1..NumUsers}
InventionIds == 1..MaxInventions
ToggleInventionIds == 1..MaxToggleInventions
Procs == 1..NumProcs
RaceUserIds == {AllUserIds[k] : k \in 1..NumRaceUsers}
RaceInventionIds == 1..MaxRaceInventions

-----------------------------------------------------------------------------
(* shared/schema.ts *)

Roles == {"user", "faculty", "admin"}
Statuses == {"pending", "under_review", "approved", "rejected"}

DefaultRole == "user"
DefaultStatus == "pending"
DefaultTags == <<>>

None == <<>>
Some(v) == <<v>>

\* The rows a SELECT without ORDER BY may deliver first: any of them.
FirstRow(rows) == IF rows = {} THEN {None} ELSE {Some(r) : r \in rows}

UserById(id) == {u \in users : u.id = id}
InventionById(id) == {inv \in inventions : inv.id = id}

-----------------------------------------------------------------------------
(* State after construction: empty tables, serial counters at 1 *)

NoResponse == [op |-> "none", args |-> None, code |-> 0, body |-> None, local |-> None]

Init ==
    /\ users = {}
    /\ inventions = {}
    /\ files = {}
    /\ comments = {}
    /\ likes = {}
    /\ nextId = [inventions |-> 1, files |-> 1, comments |-> 1, likes |-> 1]
    /\ now = 1
    /\ response = NoResponse
    /\ calls = {}

-----------------------------------------------------------------------------
(* Users *)

upsertUser(U, id) ==
    IF \E u \in U : u.id = id THEN U
    ELSE U \cup {[id |-> id, role |-> DefaultRole]}

UpsertUser(id) ==
    /\ users' = upsertUser(users, id)
    /\ response' = [op |-> "upsertUser", args |-> Some(id), code |-> 200,
                    body |-> None, local |-> None]
    /\ UNCHANGED <<inventions, files, comments, likes, nextId, now, calls>>

-----------------------------------------------------------------------------
(* Inventions *)

insertInventionSchemaOk(body) ==
    /\ body.status \in {None} \cup {Some(s) : s \in Statuses}
    /\ body.fundingAmount = None \/ body.fundingAmount[1] \in Int

createInvention(body, authorId, id, t) ==
    [id |-> id,
     tags |-> body.tags,
     status |-> IF body.status = None THEN DefaultStatus ELSE body.status[1],
     fundingAmount |-> body.fundingAmount,
     authorId |-> authorId,
     createdAt |-> t,
     updatedAt |-> t]

\* varchar("original_name", { length: 255 }): a longer name fails the INSERT.
\* filename is generated by the upload middleware, mimeType is one of the
\* types its filter lets through and size is under its limit.
saveFileInfoOk(fileInfo) == fileInfo.originalNameLength <= MaxOriginalName

saveFileInfo(F, fileInfo, id) ==
    F \cup {[id |-> id, size |-> fileInfo.size,
             originalNameLength |-> fileInfo.originalNameLength,
             inventionId |-> fileInfo.inventionId]}

\* The files of the request before the first one whose INSERT fails.
RECURSIVE saved(_)
saved(reqFiles) ==
    IF reqFiles = <<>> \/ ~saveFileInfoOk(Head(reqFiles)) THEN <<>>
    ELSE <<Head(reqFiles)>> \o saved(Tail(reqFiles))

\* for (const file of req.files) await storage.saveFileInfo(...)
RECURSIVE saveFiles(_, _, _, _)
saveFiles(F, reqFiles, inventionId, id) ==
    IF reqFiles = <<>> \/ ~saveFileInfoOk(Head(reqFiles)) THEN F
    ELSE saveFiles(saveFileInfo(F, [size |-> Head(reqFiles).size,
                                    originalNameLength |-> Head(reqFiles).originalNameLength,
                                    inventionId |-> inventionId], id),
                   Tail(reqFiles), inventionId, id + 1)

\* POST /api/inventions.  The invention and each file are separate statements,
\* with no transaction around them: what was inserted before a failure stays.
CreateInvention(userId, body, reqFiles, maxInventions, maxClock) ==
    LET ok == insertInventionSchemaOk(body) /\ UserById(userId) # {}
        id == nextId.inventions
        thrown == ~ok \/ Len(saved(reqFiles)) < Len(reqFiles)
    IN  /\ ok => (id <= maxInventions /\ now <= maxClock)
        /\ inventions' = IF ok THEN inventions \cup {createInvention(body, userId, id, now)}
                         ELSE inventions
        /\ files' = IF ok THEN saveFiles(files, reqFiles, id, nextId.files) ELSE files
        /\ nextId' = IF ok THEN [nextId EXCEPT !.inventions = id + 1,
                                               !.files = nextId.files + Len(saved(reqFiles))]
                     ELSE nextId
        /\ now' = IF ok THEN now + 1 ELSE now
        /\ response' = [op |-> "createInvention", args |-> Some(body),
                        code |-> IF thrown THEN 500 ELSE 201,
                        body |-> IF thrown THEN None ELSE Some(id), local |-> None]
        /\ UNCHANGED <<users, comments, likes, calls>>

-----------------------------------------------------------------------------
(* Likes *)

selectLikes(L, inventionId, userId) ==
    {l \in L : l.inventionId = inventionId /\ l.userId = userId}

insertLikeOk(like) ==
    /\ InventionById(like.inventionId) # {}
    /\ UserById(like.userId) # {}

\* Variants of the write of toggleLike, each a slip of the code in one branch.
toggleLikeWrite_InsertOnFlip(L, like, existing, id) ==
    IF existing # None /\ existing[1].isLike = like.isLike
    THEN {l \in L : l.id # existing[1].id}
    ELSE L \cup {[id |-> id, inventionId |-> like.inventionId,
                  userId |-> like.userId, isLike |-> like.isLike]}

toggleLikeWrite_InsertAsLike(L, like, existing, id) ==
    IF existing # None
    THEN IF existing[1].isLike = like.isLike
         THEN {l \in L : l.id # existing[1].id}
         ELSE {IF l.id = existing[1].id THEN [l EXCEPT !.isLike = like.isLike] ELSE l : l \in L}
    ELSE L \cup {[id |-> id, inventionId |-> like.inventionId,
                  userId |-> like.userId, isLike |-> TRUE]}

toggleLikeWrite_KeepOnRepeat(L, like, existing, id) ==
    IF existing # None
    THEN {IF l.id = existing[1].id THEN [l EXCEPT !.isLike = like.isLike] ELSE l : l \in L}
    ELSE L \cup {[id |-> id, inventionId |-> like.inventionId,
                  userId |-> like.userId, isLike |-> like.isLike]}

toggleLikeWrite_ReplaceOnFlip(L, like, existing, id) ==
    IF existing # None
    THEN IF existing[1].isLike = like.isLike
         THEN {l \in L : l.id # existing[1].id}
         ELSE {l \in L : l.id # existing[1].id}
              \cup {[id |-> id, inventionId |-> like.inventionId,
                     userId |-> like.userId, isLike |-> like.isLike]}
    ELSE L \cup {[id |-> id, inventionId |-> like.inventionId,
                  userId |-> like.userId, isLike |-> like.isLike]}

toggleLikeWrite_DeleteByInvention(L, like, existing, id) ==
    IF existing # None
    THEN IF existing[1].isLike = like.isLike
         THEN {l \in L : l.inventionId # like.inventionId}
         ELSE {IF l.inventionId = like.inventionId THEN [l EXCEPT !.isLike = like.isLike]
               ELSE l : l \in L}
    ELSE L \cup {[id |-> id, inventionId |-> like.inventionId,
                  userId |-> like.userId, isLike |-> like.isLike]}

toggleLikeWrite(L, like, existing, id) ==
    IF existing # None
    THEN IF existing[1].isLike = like.isLike
         THEN {l \in L : l.id # existing[1].id}
         ELSE {IF l.id = existing[1].id THEN [l EXCEPT !.isLike = like.isLike] ELSE l : l \in L}
    ELSE L \cup {[id |-> id, inventionId |-> like.inventionId,
                  userId |-> like.userId, isLike |-> like.isLike]}

getUserLike(L, inventionId, userId) == FirstRow(selectLikes(L, inventionId, userId))

ToggleLike(inventionId, userId, isLike, maxLikeId) ==
    LET like == [inventionId |-> inventionId, userId |-> userId, isLike |-> isLike] IN
    \E existing \in FirstRow(selectLikes(likes, inventionId, userId)) :
        LET inserts == existing = None
            thrown == inserts /\ ~insertLikeOk(like)
        IN  /\ (inserts /\ ~thrown) => nextId.likes <= maxLikeId
            /\ likes' = IF thrown THEN likes
                        ELSE toggleLikeWrite(likes, like, existing, nextId.likes)
            /\ nextId' = IF inserts /\ ~thrown
                         THEN [nextId EXCEPT !.likes = nextId.likes + 1] ELSE nextId
            /\ response' = [op |-> "toggleLike", args |-> Some(like),
                            code |-> IF thrown THEN 500 ELSE 200,
                            body |-> None, local |-> existing]
            /\ UNCHANGED <<users, inventions, files, comments, now, calls>>

GetUserLike(inventionId, userId) ==
    /\ \E like \in getUserLike(likes, inventionId, userId) :
          response' = [op |-> "getUserLike",
                       args |-> Some([inventionId |-> inventionId, userId |-> userId]),
                       code |-> 200, body |-> like, local |-> None]
    /\ UNCHANGED <<users, inventions, files, comments, likes, nextId, now, calls>>

-----------------------------------------------------------------------------
(* Sequential toggles: every toggleLike call runs to completion on its own *)

PlainBody == [tags |-> DefaultTags, status |-> None, fundingAmount |-> None]

NextToggle ==
    \/ \E u \in UserIds : UpsertUser(u)
    \/ CreateInvention(AllUserIds[1], PlainBody, <<>>, MaxToggleInventions, MaxClock)
    \/ \E i \in ToggleInventionIds, u \in UserIds, b \in BOOLEAN :
          ToggleLike(i, u, b, MaxLikeId)
    \/ \E i \in ToggleInventionIds, u \in UserIds : GetUserLike(i, u)

SpecToggle == Init /\ [][NextToggle]_vars

-----------------------------------------------------------------------------
(* Properties of sequential toggles *)

\* The step just taken is a completed toggleLike call (every step of a
\* sequential run answers one call, and records it in response).
Toggled ==
    /\ response'.op = "toggleLike"
    /\ response'.code = 200

\* The call answered last was a toggleLike of `like` on a pair without a vote.
LastVotedFromNoVote(like) ==
    /\ response.op = "toggleLike"
    /\ response.code = 200
    /\ response.local = None
    /\ response.args = Some(like)

RowsOf(L, like) == {l \in L : l.inventionId = like.inventionId /\ l.userId = like.userId}

\* C1: after any sequence of sequentially executed toggleLike calls from an
\* empty likes table, no two Like rows share an (inventionId, userId) pair.
C1_AtMostOneRowPerPair ==
    \A l1 \in likes, l2 \in likes :
        (l1.inventionId = l2.inventionId /\ l1.userId = l2.userId) => l1 = l2

\* C1 witness: two pairs hold a vote, three rows have been inserted so far and
\* the last call flipped or retracted an existing vote.
C1_Witness ==
    /\ response.op = "toggleLike"
    /\ response.code = 200
    /\ response.local # None
    /\ Cardinality(likes) >= 2
    /\ nextId.likes > 3

\* C3: a toggleLike(i, u, b) on a pair with no Like row inserts exactly one
\* row for (i, u), with isLike = b, and getUserLike(i, u) then returns it.
C3_NoVoteInserts ==
    [][Toggled =>
        LET like == response'.args[1] IN
        RowsOf(likes, like) = {}
        => \E r \in likes' :
              /\ r \notin likes
              /\ likes' = likes \cup {r}
              /\ r.inventionId = like.inventionId
              /\ r.userId = like.userId
              /\ r.isLike = like.isLike
              /\ RowsOf(likes', like) = {r}
              /\ getUserLike(likes', like.inventionId, like.userId) = {Some(r)}]_vars

\* C3 witness: a dislike was cast on a pair without a vote and the pair now
\* holds one row with isLike = FALSE.
C3_Witness ==
    /\ response.op = "toggleLike"
    /\ response.code = 200
    /\ response.local = None
    /\ response.args[1].isLike = FALSE
    /\ \E r \in likes : RowsOf(likes, response.args[1]) = {r} /\ r.isLike = FALSE

\* C4: a toggleLike(i, u, b) on a pair whose vote is b deletes the row and
\* leaves (i, u) without a vote; like(true) right after like(true) from
\* no-vote ends in no-vote.
C4_RepeatRetracts ==
    [][Toggled =>
        LET like == response'.args[1] IN
        /\ (\E r \in RowsOf(likes, like) : r.isLike = like.isLike)
           => /\ RowsOf(likes', like) = {}
              /\ likes' = likes \ RowsOf(likes, like)
              /\ getUserLike(likes', like.inventionId, like.userId) = {None}
        /\ (like.isLike /\ LastVotedFromNoVote(like))
           => RowsOf(likes', like) = {}]_vars

\* C4 witness: a like(true) found the pair liked and the pair has no row now.
C4_Witness ==
    /\ response.op = "toggleLike"
    /\ response.code = 200
    /\ response.local # None
    /\ response.local[1].isLike = TRUE
    /\ response.args[1].isLike = TRUE
    /\ RowsOf(likes, response.args[1]) = {}

\* C5: a toggleLike(i, u, not b) on a pair whose vote is b updates the row in
\* place: one row for (i, u) remains, with the same id and isLike = not b;
\* like(false) right after like(true) from no-vote ends in disliked.
C5_OppositeFlipsInPlace ==
    [][Toggled =>
        LET like == response'.args[1] IN
        /\ \A r \in RowsOf(likes, like) :
              r.isLike # like.isLike
              => /\ RowsOf(likes', like) = {[r EXCEPT !.isLike = like.isLike]}
                 /\ likes' = (likes \ {r}) \cup {[r EXCEPT !.isLike = like.isLike]}
        /\ (~like.isLike /\ LastVotedFromNoVote([like EXCEPT !.isLike = TRUE]))
           => \E r \in likes' : RowsOf(likes', like) = {r} /\ r.isLike = FALSE]_vars

\* C5 witness: a like(false) found the pair liked and the same row is now a
\* dislike.
C5_Witness ==
    /\ response.op = "toggleLike"
    /\ response.code = 200
    /\ response.local # None
    /\ response.local[1].isLike = TRUE
    /\ response.args[1].isLike = FALSE
    /\ [response.local[1] EXCEPT !.isLike = FALSE] \in likes

-----------------------------------------------------------------------------
(* Concurrent toggles: the SELECT of toggleLike and the statement that       *)
(* follows it are two round trips to the database, and other requests run   *)
(* between them.  The likes table declares a primary key on id and no other *)
(* uniqueness, so an INSERT is refused only by a foreign key.               *)

InFlight(p) == {c \in calls : c.proc = p}

ToggleRead(p, inventionId, userId, isLike) ==
    /\ InFlight(p) = {}
    /\ \E existing \in FirstRow(selectLikes(likes, inventionId, userId)) :
          calls' = calls \cup {[proc |-> p,
                                like |-> [inventionId |-> inventionId, userId |-> userId,
                                          isLike |-> isLike],
                                existingLike |-> existing,
                                length |-> Cardinality(selectLikes(likes, inventionId, userId))]}
    /\ UNCHANGED <<users, inventions, files, comments, likes, nextId, now, response>>

ToggleWrite(p, maxLikeId) ==
    \E c \in InFlight(p) :
        LET inserts == c.existingLike = None
            thrown == inserts /\ ~insertLikeOk(c.like)
        IN  /\ (inserts /\ ~thrown) => nextId.likes <= maxLikeId
            /\ likes' = IF thrown THEN likes
                        ELSE toggleLikeWrite(likes, c.like, c.existingLike, nextId.likes)
            /\ nextId' = IF inserts /\ ~thrown
                         THEN [nextId EXCEPT !.likes = nextId.likes + 1] ELSE nextId
            /\ calls' = calls \ {c}
            /\ response' = [op |-> "toggleLike", args |-> Some(c.like),
                            code |-> IF thrown THEN 500 ELSE 200,
                            body |-> None, local |-> c.existingLike]
            /\ UNCHANGED <<users, inventions, files, comments, now>>

NextRace ==
    \/ \E u \in RaceUserIds : UpsertUser(u)
    \/ \E u \in RaceUserIds : CreateInvention(u, PlainBody, <<>>, MaxRaceInventions, MaxClock)
    \/ \E p \in Procs, i \in RaceInventionIds, u \in RaceUserIds, b \in BOOLEAN :
          ToggleRead(p, i, u, b)
    \/ \E p \in Procs : ToggleWrite(p, MaxRaceLikeId)

SpecRace == Init /\ [][NextRace]_vars

\* C2: with the read and the write of two toggleLike calls for the same
\* (inventionId, userId) interleaving, no reachable state holds two Like rows
\* for one pair.
C2_NoDuplicateUnderRace ==
    \A i \in RaceInventionIds, u \in RaceUserIds :
        Cardinality(selectLikes(likes, i, u)) <= 1

\* C18: a toggleLike call whose SELECT returned more than one row for its
\* pair ends in an error and writes nothing to the likes table.
C18_DuplicateRowsAreAnError ==
    [][\A c \in calls \ calls' :
          c.length > 1 => (response'.code = 500 /\ likes' = likes)]_vars

-----------------------------------------------------------------------------
(* Roles.  No handler writes users.role: an administrator is made by a      *)
(* change to the users table from outside the application.                  *)

ExternalSetRole(id, role) ==
    /\ UserById(id) # {}
    /\ users' = {IF u.id = id THEN [u EXCEPT !.role = role] ELSE u : u \in users}
    /\ response' = [op |-> "externalSetRole", args |-> Some(id), code |-> 0,
                    body |-> None, local |-> None]
    /\ UNCHANGED <<inventions, files, comments, likes, nextId, now, calls>>

-----------------------------------------------------------------------------
(* Status changes *)

updateInventionStatus_KeepStatus(I, id, status, fundingAmount, t) ==
    {IF inv.id = id THEN [inv EXCEPT !.updatedAt = t] ELSE inv : inv \in I}

updateInventionStatus_ForwardOnly(I, id, status, fundingAmount, t) ==
    {IF inv.id = id /\ inv.status \notin {"approved", "rejected"}
     THEN [inv EXCEPT !.status = status, !.updatedAt = t]
     ELSE inv : inv \in I}

updateInventionStatus_Upsert(I, id, status, fundingAmount, t) ==
    IF \E inv \in I : inv.id = id
    THEN {IF inv.id = id THEN [inv EXCEPT !.status = status, !.updatedAt = t] ELSE inv : inv \in I}
    ELSE I \cup {[id |-> id, tags |-> DefaultTags, status |-> status,
                  fundingAmount |-> fundingAmount, authorId |-> AllUserIds[1],
                  createdAt |-> t, updatedAt |-> t]}

updateInventionStatus_AllRows(I, id, status, fundingAmount, t) ==
    IF \E inv \in I : inv.id = id
    THEN {[inv EXCEPT !.status = status, !.updatedAt = t] : inv \in I}
    ELSE I

updateInventionStatus(I, id, status, fundingAmount, t) ==
    {IF inv.id = id
     THEN IF fundingAmount # None
          THEN [inv EXCEPT !.status = status, !.updatedAt = t,
                           !.fundingAmount = fundingAmount]
          ELSE [inv EXCEPT !.status = status, !.updatedAt = t]
     ELSE inv : inv \in I}

\* The rows RETURNING delivers: those the UPDATE matched, as written.
returning(I, id) == {inv \in I : inv.id = id}

isAdmin_Faculty(userId) == \E u \in UserById(userId) : u.role \in {"admin", "faculty"}

\* user?.role !== 'admin' refuses a caller without a users row as well.
isAdmin(userId) == \E u \in UserById(userId) : u.role = "admin"

\* PATCH /api/inventions/:id/status.  local holds the rows the UPDATE matched,
\* as they were before it.
UpdateInventionStatus(userId, id, status, fundingAmount, maxClock) ==
    LET denied == ~isAdmin(userId)
        updated == updateInventionStatus(inventions, id, status, fundingAmount, now)
        found == returning(updated, id) # {}
    IN  /\ (~denied /\ found) => now <= maxClock
        /\ inventions' = IF denied THEN inventions ELSE updated
        /\ now' = IF ~denied /\ found THEN now + 1 ELSE now
        /\ \E row \in FirstRow(returning(updated, id)) :
              response' = [op |-> "updateInventionStatus",
                           args |-> Some([userId |-> userId, id |-> id, status |-> status,
                                          fundingAmount |-> fundingAmount]),
                           code |-> IF denied THEN 403 ELSE IF found THEN 200 ELSE 404,
                           body |-> IF denied THEN None ELSE row,
                           local |-> IF denied THEN None
                                     ELSE IF InventionById(id) = {} THEN None
                                     ELSE Some(CHOOSE inv \in InventionById(id) : TRUE)]
        /\ UNCHANGED <<users, files, comments, likes, nextId, calls>>

-----------------------------------------------------------------------------
(* Comments *)

insertCommentOk(comment) ==
    /\ InventionById(comment.inventionId) # {}
    /\ UserById(comment.authorId) # {}

createComment(C, comment, id, t) ==
    C \cup {[id |-> id, content |-> comment.content, inventionId |-> comment.inventionId,
             authorId |-> comment.authorId, createdAt |-> t]}

CreateComment(inventionId, userId, content, maxComments, maxClock) ==
    LET comment == [content |-> content, inventionId |-> inventionId, authorId |-> userId]
        ok == insertCommentOk(comment)
    IN  /\ ok => (nextId.comments <= maxComments /\ now <= maxClock)
        /\ comments' = IF ok THEN createComment(comments, comment, nextId.comments, now)
                       ELSE comments
        /\ nextId' = IF ok THEN [nextId EXCEPT !.comments = nextId.comments + 1] ELSE nextId
        /\ now' = IF ok THEN now + 1 ELSE now
        /\ response' = [op |-> "createComment", args |-> Some(comment),
                        code |-> IF ok THEN 201 ELSE 500,
                        body |-> IF ok THEN Some(nextId.comments) ELSE None, local |-> None]
        /\ UNCHANGED <<users, inventions, files, likes, calls>>

-----------------------------------------------------------------------------
(* Listing: the grouped join of storage.ts and the per-row loop of its draft *)

Range(seq) == {seq[k] : k \in DOMAIN seq}

\* What a LEFT JOIN pairs a row with: each matching row, or one NULL row.
LeftJoin(rows) == IF rows = {} THEN {None} ELSE {Some(r) : r \in rows}

\* ORDER BY created_at DESC.  No two rows of a table carry the same time.
RECURSIVE orderByCreatedAt_Asc(_)
orderByCreatedAt_Asc(rows) ==
    IF rows = {} THEN <<>>
    ELSE LET first == CHOOSE r \in rows : \A o \in rows : o.createdAt >= r.createdAt
         IN  <<first>> \o orderByCreatedAt_Asc(rows \ {first})

RECURSIVE orderByCreatedAtDesc(_)
orderByCreatedAtDesc(rows) ==
    IF rows = {} THEN <<>>
    ELSE LET first == CHOOSE r \in rows : \A o \in rows : o.createdAt <= r.createdAt
         IN  <<first>> \o orderByCreatedAtDesc(rows \ {first})

\* The && of PostgreSQL arrays: the two arrays have an element in common.
arrayOverlap_All(tags, wanted) ==
    \A j \in DOMAIN wanted : \E k \in DOMAIN tags : tags[k] = wanted[j]

arrayOverlap(tags, wanted) ==
    \E k \in DOMAIN tags, j \in DOMAIN wanted : tags[k] = wanted[j]

\* filters.tags.some(tag => inv.tags.includes(tag))
includes(tags, tag) == \E k \in DOMAIN tags : tags[k] = tag
someIncluded(wanted, tags) == \E j \in DOMAIN wanted : includes(tags, wanted[j])

hasStatus(filters) == filters.status # None /\ filters.status[1] # ""
hasTags(filters) == filters.tags # None /\ Len(filters.tags[1]) > 0

\* The query builder keeps one WHERE condition: a second call of where()
\* replaces the condition the first call set.
whereJoin_AnyStatus(filters, inv) ==
    IF hasTags(filters) THEN arrayOverlap(inv.tags, filters.tags[1])
    ELSE TRUE

whereJoin(filters, inv) ==
    IF hasTags(filters) THEN arrayOverlap(inv.tags, filters.tags[1])
    ELSE IF hasStatus(filters) THEN inv.status = filters.status[1]
    ELSE TRUE

joinRows(inv) ==
    {[author |-> a, like |-> l, comment |-> c, file |-> f] :
        a \in LeftJoin(UserById(inv.authorId)),
        l \in LeftJoin({x \in likes : x.inventionId = inv.id}),
        c \in LeftJoin({x \in comments : x.inventionId = inv.id}),
        f \in LeftJoin({x \in files : x.inventionId = inv.id})}

\* One group per (inventions.id, users.id) and its aggregates.
groupBy(inv) ==
    {[id |-> inv.id, tags |-> inv.tags, status |-> inv.status,
      fundingAmount |-> inv.fundingAmount, authorId |-> inv.authorId,
      createdAt |-> inv.createdAt, updatedAt |-> inv.updatedAt,
      author |-> a,
      _count |->
        LET rows == {r \in joinRows(inv) : r.author = a} IN
        [likes |-> Cardinality({r \in rows : r.like # None /\ r.like[1].isLike = TRUE}),
         dislikes |-> Cardinality({r \in rows : r.like # None /\ r.like[1].isLike = FALSE}),
         comments |-> Cardinality({r.comment[1].id : r \in {x \in rows : x.comment # None}}),
         files |-> Cardinality({r.file[1].id : r \in {x \in rows : x.file # None}})]] :
        a \in LeftJoin(UserById(inv.authorId))}

getInventionsJoin(filters) ==
    orderByCreatedAtDesc(UNION {groupBy(inv) : inv \in {x \in inventions : whereJoin(filters, x)}})

\* The draft: all inventions with their authors, newest first, then per row
\* the filters and one query per count.
allInventions ==
    orderByCreatedAtDesc({inv \in inventions : UserById(inv.authorId) # {}})

skippedByLoop(filters, inv) ==
    \/ hasStatus(filters) /\ inv.status # filters.status[1]
    \/ hasTags(filters) /\ ~someIncluded(filters.tags[1], inv.tags)

loopRow(inv) ==
    LET likesData == {x \in likes : x.inventionId = inv.id} IN
    [id |-> inv.id, tags |-> inv.tags, status |-> inv.status,
     fundingAmount |-> inv.fundingAmount, authorId |-> inv.authorId,
     createdAt |-> inv.createdAt, updatedAt |-> inv.updatedAt,
     author |-> Some(CHOOSE u \in users : u.id = inv.authorId),
     _count |-> [likes |-> Cardinality({l \in likesData : l.isLike = TRUE}),
                 dislikes |-> Cardinality({l \in likesData : l.isLike = FALSE}),
                 comments |-> Cardinality({x \in comments : x.inventionId = inv.id}),
                 files |-> Cardinality({x \in files : x.inventionId = inv.id})]]

RECURSIVE loopOver(_, _)
loopOver(rows, filters) ==
    IF rows = <<>> THEN <<>>
    ELSE IF skippedByLoop(filters, Head(rows)) THEN loopOver(Tail(rows), filters)
    ELSE <<loopRow(Head(rows))>> \o loopOver(Tail(rows), filters)

getInventionsLoop(filters) == loopOver(allInventions, filters)

\* GET /api/inventions: the query string's status and tags (the parts of its
\* comma-joined list) become the filters; an empty parameter sets none.
routeFilters(query) ==
    [status |-> IF query.status # None /\ query.status[1] # "" THEN query.status ELSE None,
     tags |-> IF query.tags # None /\ query.tags[1] # <<>> THEN query.tags ELSE None]

GetInventions(query) ==
    /\ response' = [op |-> "getInventions", args |-> Some(routeFilters(query)), code |-> 200,
                    body |-> getInventionsJoin(routeFilters(query)), local |-> None]
    /\ UNCHANGED <<users, inventions, files, comments, likes, nextId, now, calls>>

GetInventionsLoop(query) ==
    /\ response' = [op |-> "getInventionsLoop", args |-> Some(routeFilters(query)),
                    code |-> 200,
                    body |-> getInventionsLoop(routeFilters(query)), local |-> None]
    /\ UNCHANGED <<users, inventions, files, comments, likes, nextId, now, calls>>

-----------------------------------------------------------------------------
(* Statistics: one aggregate over the inventions table *)

\* COUNT(CASE WHEN status = s THEN 1 END): the rows whose CASE is not NULL.
RECURSIVE countCase(_, _)
countCase(rows, status) ==
    IF rows = {} THEN 0
    ELSE LET r == CHOOSE x \in rows : TRUE
         IN  (IF r.status = status THEN 1 ELSE 0) + countCase(rows \ {r}, status)

getStats_PendingWithReview ==
    [total |-> Cardinality(inventions),
     pending |-> countCase(inventions, "pending") + countCase(inventions, "under_review"),
     approved |-> countCase(inventions, "approved"),
     rejected |-> countCase(inventions, "rejected")]

getStats ==
    [total |-> Cardinality(inventions),
     pending |-> countCase(inventions, "pending"),
     approved |-> countCase(inventions, "approved"),
     rejected |-> countCase(inventions, "rejected")]

GetStats ==
    /\ response' = [op |-> "getStats", args |-> None, code |-> 200,
                    body |-> Some(getStats), local |-> None]
    /\ UNCHANGED <<users, inventions, files, comments, likes, nextId, now, calls>>

-----------------------------------------------------------------------------
(* Requests over engagement: inventions with files, votes and comments, and *)
(* the unfiltered list                                                      *)

NoQuery == [status |-> None, tags |-> None]
FilesOf(n) == [k \in 1..n |-> [size |-> 1, originalNameLength |-> 1]]
CountsClock == MaxInventions + MaxComments

NextCounts ==
    \/ \E u \in UserIds : UpsertUser(u)
    \/ \E n \in 0..MaxFiles :
          CreateInvention(AllUserIds[1], PlainBody, FilesOf(n), MaxInventions, CountsClock)
    \/ \E i \in InventionIds, u \in UserIds, b \in BOOLEAN : ToggleLike(i, u, b, MaxLikeId)
    \/ \E i \in InventionIds :
          CreateComment(i, AllUserIds[1], "text", MaxComments, CountsClock)
    \/ GetInventions(NoQuery)
    \/ GetInventionsLoop(NoQuery)

SpecCounts == Init /\ [][NextCounts]_vars

-----------------------------------------------------------------------------
(* Requests over tags and statuses: creations, status changes by an         *)
(* administrator, and filtered lists                                        *)

TagLists == {<<>>, <<"AI/ML", "IoT">>, <<"Biotech">>}
TagFilters == {None, Some(<<>>), Some(<<"IoT", "Energy">>), Some(<<"Biotech">>)}
StatusFilters == {None, Some("")} \cup {Some(st) : st \in Statuses}
Queries == [status : {None, Some("approved")}, tags : {None, Some(<<"IoT", "Energy">>)}]

NextFilter ==
    \/ UpsertUser(AllUserIds[1])
    \/ ExternalSetRole(AllUserIds[1], "admin")
    \/ \E tags \in TagLists, st \in {None, Some("approved")} :
          CreateInvention(AllUserIds[1], [tags |-> tags, status |-> st, fundingAmount |-> None],
                          <<>>, MaxInventions, MaxClock)
    \/ \E i \in InventionIds, st \in Statuses :
          UpdateInventionStatus(AllUserIds[1], i, st, None, MaxClock)
    \/ \E q \in Queries : GetInventions(q)
    \/ \E q \in Queries : GetInventionsLoop(q)

SpecFilter == Init /\ [][NextFilter]_vars

-----------------------------------------------------------------------------
(* Requests over statuses alone, and the statistics *)

NextStats ==
    \/ UpsertUser(AllUserIds[1])
    \/ \E st \in {None} \cup {Some(x) : x \in Statuses} :
          CreateInvention(AllUserIds[1], [tags |-> DefaultTags, status |-> st,
                                          fundingAmount |-> None],
                          <<>>, MaxStatsInventions, MaxStatsInventions)
    \/ GetStats

SpecStats == Init /\ [][NextStats]_vars

-----------------------------------------------------------------------------
(* Properties of the lists and of the statistics *)

NoFilters == [status |-> None, tags |-> None]
Ids(result) == {result[k].id : k \in DOMAIN result}
AllIds == {inv.id : inv \in inventions}

RowCounts(id) ==
    [likes |-> Cardinality({l \in likes : l.inventionId = id /\ l.isLike}),
     dislikes |-> Cardinality({l \in likes : l.inventionId = id /\ ~l.isLike}),
     comments |-> Cardinality({c \in comments : c.inventionId = id}),
     files |-> Cardinality({f \in files : f.inventionId = id})]

CountsAreRowCounts(result) ==
    \A k \in DOMAIN result : result[k]._count = RowCounts(result[k].id)

\* C6: for every invention X that getInventions returns, likes and dislikes
\* are the numbers of Like rows of X with isLike true and false, comments and
\* files the numbers of its Comment and File rows.
C6_CountsAreRowCounts ==
    /\ CountsAreRowCounts(getInventionsJoin(NoFilters))
    /\ CountsAreRowCounts(getInventionsLoop(NoFilters))

\* The per-row loop alone reports the row counts.
C6_LoopCountsAreRowCounts == CountsAreRowCounts(getInventionsLoop(NoFilters))

TagsMeet(inv, wanted) == Range(inv.tags) \cap Range(wanted) # {}

C8_StatusFilterIsExact ==
    /\ \A st \in Statuses :
          LET f == [status |-> Some(st), tags |-> None]
              expected == {inv.id : inv \in {x \in inventions : x.status = st}}
          IN  /\ Ids(getInventionsJoin(f)) = expected
              /\ Ids(getInventionsLoop(f)) = expected
              /\ \A k \in DOMAIN getInventionsJoin(f) : getInventionsJoin(f)[k].status = st
              /\ \A k \in DOMAIN getInventionsLoop(f) : getInventionsLoop(f)[k].status = st
    /\ \A st \in {None, Some("")} :
          /\ Ids(getInventionsJoin([status |-> st, tags |-> None])) = AllIds
          /\ Ids(getInventionsLoop([status |-> st, tags |-> None])) = AllIds

\* C8 witness: a list filtered by status approved returned approved inventions
\* only, while an under_review invention exists and stayed out.
C8_Witness ==
    /\ response.op \in {"getInventions", "getInventionsLoop"}
    /\ response.args = Some([status |-> Some("approved"), tags |-> None])
    /\ response.body # <<>>
    /\ \A k \in DOMAIN response.body : response.body[k].status = "approved"
    /\ \E inv \in inventions : inv.status = "under_review" /\ inv.id \notin Ids(response.body)

NewestFirst(result) ==
    /\ Len(result) = Cardinality(inventions)
    /\ Ids(result) = AllIds
    /\ \A p \in DOMAIN result, q \in DOMAIN result :
          p < q => /\ result[p].createdAt > result[q].createdAt
                   /\ result[p].id > result[q].id

\* C9: with no filters every invention is returned once, and of two returned
\* inventions the one listed first was created later.
C9_NewestFirst ==
    /\ NewestFirst(getInventionsJoin(NoFilters))
    /\ NewestFirst(getInventionsLoop(NoFilters))

\* C9 witness: an unfiltered list returned two inventions, the newer first,
\* after the older one's status was changed.
C9_Witness ==
    /\ response.op \in {"getInventions", "getInventionsLoop"}
    /\ response.args = Some(NoFilters)
    /\ Len(response.body) >= 2
    /\ response.body[1].id = 2
    /\ response.body[2].id = 1
    /\ response.body[2].updatedAt > response.body[1].createdAt

StatusCount(st) == Cardinality({inv \in inventions : inv.status = st})

\* C10: getStats returns the number of inventions as total and the numbers
\* with status pending, approved and rejected (under_review counts in total
\* only); the statuses [pending, pending, approved, rejected, approved] give
\* {total: 5, pending: 2, approved: 2, rejected: 1}.
C10_StatsAreStatusCounts ==
    /\ getStats.total = Cardinality(inventions)
    /\ getStats.pending = StatusCount("pending")
    /\ getStats.approved = StatusCount("approved")
    /\ getStats.rejected = StatusCount("rejected")
    /\ getStats.total = getStats.pending + getStats.approved + getStats.rejected
                        + StatusCount("under_review")
    /\ (response.op = "getStats" => response.body = Some(getStats))

\* C10 witness: the statistics of five inventions with statuses pending,
\* pending, approved, rejected, approved, in the order of their creation.
C10_Witness ==
    /\ response.op = "getStats"
    /\ {<<inv.id, inv.status>> : inv \in inventions}
          = {<<1, "pending">>, <<2, "pending">>, <<3, "approved">>, <<4, "rejected">>,
             <<5, "approved">>}
    /\ response.body = Some([total |-> 5, pending |-> 2, approved |-> 2, rejected |-> 1])

\* C10 witness of the other case: an under_review invention counted in total
\* and in no other field.
C10_UnderReviewWitness ==
    /\ response.op = "getStats"
    /\ \E inv \in inventions : inv.status = "under_review"
    /\ response.body[1].total > response.body[1].pending + response.body[1].approved
                               + response.body[1].rejected

-----------------------------------------------------------------------------
(* Detail of one invention: the left-join version of storage.ts and the     *)
(* inner-join version of its later draft                                    *)

filesOf_All(id) == files

filesOf(id) == {f \in files : f.inventionId = id}

likesOf(id) == {l \in likes : l.inventionId = id}

\* comments LEFT JOIN users, one row per comment and matching user.
commentsLeftJoin(id) ==
    UNION {{[id |-> c.id, content |-> c.content, inventionId |-> c.inventionId,
             authorId |-> c.authorId, createdAt |-> c.createdAt, author |-> a] :
               a \in LeftJoin(UserById(c.authorId))} :
           c \in {x \in comments : x.inventionId = id}}

\* comments INNER JOIN users: a comment without a users row is dropped.
commentsInnerJoin(id) == {r \in commentsLeftJoin(id) : r.author # None}

detail(row, id, joined) ==
    [invention |-> row.inventions, author |-> row.users, files |-> filesOf(id),
     comments |-> orderByCreatedAtDesc(joined), likes |-> likesOf(id)]

\* The results the call can give: None when the first query has no row.
getInvention(id) ==
    LET rows == UNION {{[inventions |-> inv, users |-> a] :
                           a \in LeftJoin(UserById(inv.authorId))} :
                       inv \in InventionById(id)}
    IN  {IF r = None THEN None ELSE Some(detail(r[1], id, commentsLeftJoin(id))) :
            r \in FirstRow(rows)}

getInventionInner(id) ==
    LET rows == UNION {{[inventions |-> inv, users |-> Some(u)] :
                           u \in UserById(inv.authorId)} :
                       inv \in InventionById(id)}
    IN  {IF r = None THEN None ELSE Some(detail(r[1], id, commentsInnerJoin(id))) :
            r \in FirstRow(rows)}

\* GET /api/inventions/:id
GetInvention(id) ==
    /\ \E result \in getInvention(id) :
          response' = [op |-> "getInvention", args |-> Some(id),
                       code |-> IF result = None THEN 404 ELSE 200,
                       body |-> result, local |-> None]
    /\ UNCHANGED <<users, inventions, files, comments, likes, nextId, now, calls>>

GetInventionInner(id) ==
    /\ \E result \in getInventionInner(id) :
          response' = [op |-> "getInventionInner", args |-> Some(id),
                       code |-> IF result = None THEN 404 ELSE 200,
                       body |-> result, local |-> None]
    /\ UNCHANGED <<users, inventions, files, comments, likes, nextId, now, calls>>

-----------------------------------------------------------------------------
(* Status changes by administrators and others *)

\* req.body.status and req.body.fundingAmount reach the storage call as sent.
StatusInputs == Statuses \cup {"archived"}
FundingInputs == {None, Some(1000), Some(-1)}

NextStatus ==
    \/ UpsertUser(AllUserIds[1])
    \/ \E r \in Roles : ExternalSetRole(AllUserIds[1], r)
    \/ \E st \in {None, Some("archived")} :
          CreateInvention(AllUserIds[1], [tags |-> DefaultTags, status |-> st,
                                          fundingAmount |-> None],
                          <<>>, MaxStatusInventions, MaxStatusClock)
    \/ \E i \in 1..(MaxStatusInventions + 1), st \in StatusInputs, f \in FundingInputs :
          UpdateInventionStatus(AllUserIds[1], i, st, f, MaxStatusClock)
    \/ \E i \in 1..(MaxStatusInventions + 1) : GetInvention(i)
    \/ \E i \in 1..(MaxStatusInventions + 1) : GetInventionInner(i)

SpecStatus == Init /\ [][NextStatus]_vars

\* C11: a status change that reaches the storage call returns, for an existing
\* id, the invention as stored after the call with the requested status, and
\* for an id no invention has, the not-found answer with every invention
\* record left as it was.
C11_SetStatusReturnsOrNotFound ==
    [][(response'.op = "updateInventionStatus" /\ response'.code # 403) =>
        IF InventionById(response'.args[1].id) # {}
        THEN /\ response'.code = 200
             /\ response'.body # None
             /\ response'.body[1] \in inventions'
             /\ response'.body[1].id = response'.args[1].id
             /\ response'.body[1].status = response'.args[1].status
        ELSE /\ response'.code = 404
             /\ response'.body = None
             /\ inventions' = inventions]_vars

C11_Witness ==
    /\ response.op = "updateInventionStatus"
    /\ response.code = 200
    /\ response.args[1].status = "under_review"
    /\ \E inv \in inventions : inv.id = response.args[1].id /\ inv.status = "under_review"

C11_NotFoundWitness ==
    /\ response.op = "updateInventionStatus"
    /\ response.code = 404
    /\ inventions # {}

\* The steps of a status change that reached the storage call and found its row.
StatusStored == response'.op = "updateInventionStatus" /\ response'.code = 200

\* C12: a status change to pending, under_review or rejected leaves the
\* fundingAmount of every invention as it was, whatever amount the call carries.
C12_FundingOnlyWhenApproved ==
    [][(StatusStored /\ response'.args[1].status \in Statuses \ {"approved"}) =>
        \A inv \in inventions : \A after \in inventions' :
            after.id = inv.id => after.fundingAmount = inv.fundingAmount]_vars

\* C13: no invention is rejected and holds a fundingAmount.
C13_RejectedHasNoFunding ==
    \A inv \in inventions : inv.status = "rejected" => inv.fundingAmount = None

\* The rejection of the admin dashboard (no amount sent) on its own: it leaves
\* the rejected invention without a fundingAmount.
C13_RejectionClearsFunding ==
    [][(StatusStored /\ response'.args[1].status = "rejected"
                     /\ response'.args[1].fundingAmount = None) =>
        \A after \in inventions' :
            after.id = response'.args[1].id => after.fundingAmount = None]_vars

\* C14: from every status to every status, itself included, a status change
\* that reaches the storage call succeeds and leaves the invention in the
\* requested status.
C14_FlatStateMachine ==
    [][(/\ response'.op = "updateInventionStatus"
        /\ response'.code # 403
        /\ response'.args[1].status \in Statuses
        /\ \E inv \in InventionById(response'.args[1].id) : inv.status \in Statuses) =>
        /\ response'.code = 200
        /\ \E after \in inventions' : after.id = response'.args[1].id
        /\ \A after \in inventions' :
              after.id = response'.args[1].id => after.status = response'.args[1].status]_vars

C14_Witness ==
    /\ response.op = "updateInventionStatus"
    /\ response.code = 200
    /\ response.local # None
    /\ response.local[1].status = "rejected"
    /\ response.args[1].status = "approved"
    /\ \E inv \in inventions : inv.id = response.args[1].id /\ inv.status = "approved"

C14_SameStatusWitness ==
    /\ response.op = "updateInventionStatus"
    /\ response.code = 200
    /\ response.local # None
    /\ response.local[1].status = "approved"
    /\ response.args[1].status = "approved"

\* C15: a status request of a caller whose users row does not carry the role
\* admin (or who has no users row) is answered 403 and leaves every invention
\* as it was; every other answer of the route is given to an admin.
C15_OnlyAdminChangesStatus ==
    [][response'.op = "updateInventionStatus" =>
        LET caller == response'.args[1].userId
            admin == \E u \in users : u.id = caller /\ u.role = "admin"
        IN  /\ ~admin => (response'.code = 403 /\ inventions' = inventions)
            /\ admin => response'.code \in {200, 404}]_vars

C15_Witness ==
    /\ response.op = "updateInventionStatus"
    /\ response.code = 403
    /\ \E u \in users : u.id = response.args[1].userId /\ u.role = "faculty"
    /\ \E inv \in inventions : inv.id = response.args[1].id
                                /\ inv.status # response.args[1].status

\* C19: every stored fundingAmount is unset or a non-negative integer.
C19_FundingNonNegative ==
    \A inv \in inventions : inv.fundingAmount # None => inv.fundingAmount[1] >= 0

\* C20: every stored status is one of pending, under_review, approved, rejected.
C20_StatusInEnum ==
    \A inv \in inventions : inv.status \in Statuses

\* The creation route on its own keeps C20: insertInventionSchema refuses a
\* status outside the four.
C20_CreateKeepsEnum ==
    [][response'.op = "createInvention" =>
        \A after \in inventions' \ inventions : after.status \in Statuses]_vars

\* C17: a detail request, or a status request of an admin, for an id that no
\* invention has is answered 404 and leaves every table as it was.
C17_MissingIdIs404 ==
    [][/\ (/\ response'.op \in {"getInvention", "getInventionInner"}
           /\ ~(\E inv \in inventions : inv.id = response'.args[1])) =>
              (response'.code = 404 /\ UNCHANGED <<users, inventions, files, comments, likes>>)
       /\ (/\ response'.op = "updateInventionStatus"
           /\ \E u \in users : u.id = response'.args[1].userId /\ u.role = "admin"
           /\ ~(\E inv \in inventions : inv.id = response'.args[1].id)) =>
              (response'.code = 404 /\ UNCHANGED <<users, inventions, files, comments, likes>>)]_vars

C17_Witness ==
    /\ response.op = "updateInventionStatus"
    /\ response.code = 404
    /\ \E u \in users : u.id = response.args[1].userId /\ u.role = "admin"
    /\ \E inv \in inventions : inv.id # response.args[1].id

C17_DetailWitness ==
    /\ response.op = "getInvention"
    /\ response.code = 404
    /\ \E inv \in inventions : inv.id # response.args[1]

-----------------------------------------------------------------------------
(* Requests for the detail of inventions with files, comments and votes *)

DetailUserIds == {AllUserIds[1], AllUserIds[2]}
DetailClock == MaxDetailInventions + MaxDetailComments

NextDetail ==
    \/ \E u \in DetailUserIds : UpsertUser(u)
    \/ \E n \in {0, MaxDetailFiles} :
          CreateInvention(AllUserIds[1], PlainBody, FilesOf(n), MaxDetailInventions, DetailClock)
    \/ \E i \in 1..MaxDetailInventions :
          CreateComment(i, AllUserIds[2], "text", MaxDetailComments, DetailClock)
    \/ \E i \in 1..MaxDetailInventions :
          ToggleLike(i, AllUserIds[2], TRUE, MaxDetailLikeId)
    \/ \E i \in 1..MaxDetailInventions : GetInvention(i)
    \/ \E i \in 1..MaxDetailInventions : GetInventionInner(i)

SpecDetail == Init /\ [][NextDetail]_vars

\* The comments of a detail are those of the invention, each once, each with
\* the users row of its author, newest first.
DetailComments(cs, id) ==
    /\ {[id |-> cs[k].id, content |-> cs[k].content, inventionId |-> cs[k].inventionId,
         authorId |-> cs[k].authorId, createdAt |-> cs[k].createdAt] : k \in DOMAIN cs}
          = {c \in comments : c.inventionId = id}
    /\ \A j, k \in DOMAIN cs : j < k => cs[j].createdAt > cs[k].createdAt
    /\ \A k \in DOMAIN cs :
          /\ cs[k].author # None
          /\ cs[k].author[1] \in users
          /\ cs[k].author[1].id = cs[k].authorId

\* C16: the detail of an id is not-found exactly when no invention has the
\* id; otherwise it is that invention with the users row of its author, the
\* files whose inventionId is the id and no others, its comments newest first
\* each with its author, and the likes whose inventionId is the id and no
\* others.
C16_DetailIsComplete ==
    response.op \in {"getInvention", "getInventionInner"} =>
        LET id == response.args[1]
        IN  /\ response.body = None <=> ~(\E inv \in inventions : inv.id = id)
            /\ response.body # None =>
                  LET b == response.body[1]
                  IN  /\ b.invention \in inventions
                      /\ b.invention.id = id
                      /\ b.author # None
                      /\ b.author[1] \in users
                      /\ b.author[1].id = b.invention.authorId
                      /\ b.files = {f \in files : f.inventionId = id}
                      /\ b.likes = {l \in likes : l.inventionId = id}
                      /\ DetailComments(b.comments, id)

C16_Witness ==
    /\ response.op \in {"getInvention", "getInventionInner"}
    /\ response.body # None
    /\ response.body[1].files # {}
    /\ response.body[1].likes # {}
    /\ Len(response.body[1].comments) >= 2
    /\ \E f \in files : f.inventionId # response.args[1]

C16_NotFoundWitness ==
    /\ response.op \in {"getInvention", "getInventionInner"}
    /\ response.body = None
    /\ inventions # {}

-----------------------------------------------------------------------------
(* Requests that write comments *)

\* req.body.content: insertCommentSchema asks for a string and nothing more.
CommentContents == {"", "text"}

NextComment ==
    \/ \E u \in UserIds : UpsertUser(u)
    \/ CreateInvention(AllUserIds[1], PlainBody, <<>>, MaxInventions, CountsClock)
    \/ \E i \in 1..(MaxInventions + 1), u \in UserIds, content \in CommentContents :
          CreateComment(i, u, content, MaxComments, CountsClock)

SpecComment == Init /\ [][NextComment]_vars

\* C21: every stored comment has a content other than the empty string.
C21_CommentContentNonEmpty ==
    \A c \in comments : c.content # ""

\* The comment route does refuse a request it cannot store: one for an
\* invention that does not exist, or by a caller without a users row.
C21_RefusedCommentStoresNothing ==
    [][(response'.op = "createComment" /\ response'.code = 500) => comments' = comments]_vars

-----------------------------------------------------------------------------
(* Deletion.  No handler deletes an invention or a user: a row leaves these  *)
(* tables by a statement from outside the application, and the foreign keys *)
(* of the schema decide what follows.                                       *)

onDeleteCascade_Keep(rows, id) == rows

\* references(() => inventions.id, { onDelete: "cascade" })
onDeleteCascade(rows, id) == {r \in rows : r.inventionId # id}

\* local holds the rows the cascade removed.
ExternalDeleteInvention(id) ==
    /\ InventionById(id) # {}
    /\ inventions' = inventions \ InventionById(id)
    /\ files' = onDeleteCascade(files, id)
    /\ comments' = onDeleteCascade(comments, id)
    /\ likes' = onDeleteCascade(likes, id)
    /\ response' = [op |-> "externalDeleteInvention", args |-> Some(id), code |-> 0,
                    body |-> None,
                    local |-> Some([files |-> files \ files', comments |-> comments \ comments',
                                    likes |-> likes \ likes'])]
    /\ UNCHANGED <<users, nextId, now, calls>>

DeleteClock == MaxDeleteInventions + MaxDeleteComments

NextDelete ==
    \/ UpsertUser(AllUserIds[1])
    \/ \E n \in {0, MaxDeleteFiles} :
          CreateInvention(AllUserIds[1], PlainBody, FilesOf(n), MaxDeleteInventions, DeleteClock)
    \/ \E i \in 1..MaxDeleteInventions :
          CreateComment(i, AllUserIds[1], "text", MaxDeleteComments, DeleteClock)
    \/ \E i \in 1..MaxDeleteInventions : ToggleLike(i, AllUserIds[1], TRUE, MaxDeleteLikeId)
    \/ \E i \in 1..MaxDeleteInventions : ExternalDeleteInvention(i)

SpecDelete == Init /\ [][NextDelete]_vars

Referenced(rows) == \A r \in rows : \E inv \in inventions : inv.id = r.inventionId

\* C22: the deletion of an invention removes exactly the File, Comment and
\* Like rows whose inventionId is that invention, and in every state each
\* File, Comment and Like row references an invention that exists.
C22_CascadeDeletion ==
    /\ [](Referenced(files) /\ Referenced(comments) /\ Referenced(likes))
    /\ [][response'.op = "externalDeleteInvention" =>
            /\ files' = {f \in files : f.inventionId # response'.args[1]}
            /\ comments' = {c \in comments : c.inventionId # response'.args[1]}
            /\ likes' = {l \in likes : l.inventionId # response'.args[1]}
            /\ inventions' = {inv \in inventions : inv.id # response'.args[1]}]_vars

C22_Witness ==
    /\ response.op = "externalDeleteInvention"
    /\ response.local[1].files # {}
    /\ response.local[1].comments # {}
    /\ response.local[1].likes # {}
    /\ files # {}
    /\ comments # {}
    /\ likes # {}

userReferenced_Never(id) == FALSE

\* references(() => users.id), without onDelete: a users row that an
\* invention, a comment or a like points to cannot be deleted.
userReferenced(id) ==
    \/ \E inv \in inventions : inv.authorId = id
    \/ \E c \in comments : c.authorId = id
    \/ \E l \in likes : l.userId = id

ExternalDeleteUser(id) ==
    /\ UserById(id) # {}
    /\ ~userReferenced(id)
    /\ users' = users \ UserById(id)
    /\ response' = [op |-> "externalDeleteUser", args |-> Some(id), code |-> 0,
                    body |-> None, local |-> None]
    /\ UNCHANGED <<inventions, files, comments, likes, nextId, now, calls>>

-----------------------------------------------------------------------------
(* Requests that read inventions with their authors *)

NextAuthor ==
    \/ \E u \in DetailUserIds : UpsertUser(u)
    \/ \E u \in DetailUserIds : ExternalDeleteUser(u)
    \/ \E u \in DetailUserIds :
          CreateInvention(u, PlainBody, <<>>, MaxAuthorInventions, MaxAuthorInventions)
    \/ GetInventions(NoQuery)
    \/ GetInventionsLoop(NoQuery)
    \/ \E i \in 1..MaxAuthorInventions : GetInvention(i)
    \/ \E i \in 1..MaxAuthorInventions : GetInventionInner(i)

SpecAuthor == Init /\ [][NextAuthor]_vars

\* C23: every invention of a list and every detail carries an author that is
\* not null and whose id is the invention's authorId.
C23_AuthorNeverNull ==
    /\ response.op \in {"getInventions", "getInventionsLoop"} =>
          \A k \in DOMAIN response.body :
              /\ response.body[k].author # None
              /\ response.body[k].author[1].id = response.body[k].authorId
    /\ (response.op \in {"getInvention", "getInventionInner"} /\ response.body # None) =>
          /\ response.body[1].author # None
          /\ response.body[1].author[1].id = response.body[1].invention.authorId

C23_Witness ==
    /\ response.op = "getInventions"
    /\ Len(response.body) >= 2
    /\ \E j, k \in DOMAIN response.body : response.body[j].authorId # response.body[k].authorId

C23_DetailWitness ==
    /\ response.op = "getInvention"
    /\ response.body # None
    /\ response.body[1].invention.authorId = AllUserIds[2]

-----------------------------------------------------------------------------
(* Requests of every writing kind on the same inventions: votes, comments,  *)
(* files and status changes                                                 *)

NextFrame ==
    \/ \E u \in DetailUserIds : UpsertUser(u)
    \/ ExternalSetRole(AllUserIds[1], "admin")
    \/ CreateInvention(AllUserIds[1], PlainBody, FilesOf(MaxFrameFiles), MaxFrameInventions,
                       MaxFrameClock)
    \/ \E i \in 1..MaxFrameInventions :
          CreateComment(i, AllUserIds[2], "text", MaxFrameComments, MaxFrameClock)
    \/ \E i \in 1..MaxFrameInventions, u \in DetailUserIds :
          ToggleLike(i, u, TRUE, MaxFrameLikeId)
    \/ \E i \in 1..MaxFrameInventions :
          UpdateInventionStatus(AllUserIds[1], i, "approved", Some(1000), MaxFrameClock)

SpecFrame == Init /\ [][NextFrame]_vars

KeptFields(inv) == [id |-> inv.id, tags |-> inv.tags, authorId |-> inv.authorId,
                    createdAt |-> inv.createdAt]

\* C25: votes and comments leave every invention record as it was, a creation
\* with its files leaves every earlier one as it was, and a status change on
\* an id changes only status, fundingAmount and updatedAt of that invention.
C25_InventionChangedOnlyByStatus ==
    [][/\ response'.op \in {"toggleLike", "createComment"} => inventions' = inventions
       /\ response'.op = "createInvention" => inventions \subseteq inventions'
       /\ response'.op = "updateInventionStatus" =>
             /\ \A inv \in inventions : inv.id # response'.args[1].id => inv \in inventions'
             /\ {KeptFields(inv) : inv \in inventions'} = {KeptFields(inv) : inv \in inventions}
             /\ Cardinality(inventions') = Cardinality(inventions)]_vars

C25_Witness ==
    /\ response.op = "updateInventionStatus"
    /\ response.code = 200
    /\ \E inv \in inventions : inv.id # response.args[1].id /\ inv.updatedAt = inv.createdAt
    /\ \E inv \in inventions : inv.id = response.args[1].id /\ inv.updatedAt > inv.createdAt

C25_VoteAfterFundingWitness ==
    /\ response.op = "toggleLike"
    /\ response.code = 200
    /\ \E inv \in inventions : /\ inv.id = response.args[1].inventionId
                                /\ inv.fundingAmount # None
                                /\ inv.updatedAt > inv.createdAt

-----------------------------------------------------------------------------
(* The two versions of the list against each other *)

\* C26: for every filter the grouped join and the per-row loop return the
\* same inventions in the same order with the same four counts.
C26_JoinEqualsLoop ==
    \A q \in Queries :
        getInventionsJoin(routeFilters(q)) = getInventionsLoop(routeFilters(q))

\* The order of the two versions, counts and filters aside: with no filter
\* both return the same ids in the same order.
C26_SameOrderUnfiltered ==
    LET join == getInventionsJoin(NoFilters)
        loop == getInventionsLoop(NoFilters)
    IN  /\ Len(join) = Len(loop)
        /\ \A k \in DOMAIN join : join[k].id = loop[k].id

BothMeet(st, t) == {inv.id : inv \in {x \in inventions : x.status = st /\ TagsMeet(x, t)}}

\* C27: with a status filter s and a non-empty tag filter T together, exactly
\* the inventions with status s and a tag in T are returned.
C27_FiltersCombine ==
    \A st \in Statuses, t \in {x \in TagFilters : x # None /\ x # Some(<<>>)} :
        LET f == [status |-> Some(st), tags |-> t]
        IN  /\ Ids(getInventionsJoin(f)) = BothMeet(st, t[1])
            /\ Ids(getInventionsLoop(f)) = BothMeet(st, t[1])

\* The per-row loop alone combines the two filters.
C27_LoopFiltersCombine ==
    \A st \in Statuses, t \in {x \in TagFilters : x # None /\ x # Some(<<>>)} :
        Ids(getInventionsLoop([status |-> Some(st), tags |-> t])) = BothMeet(st, t[1])

Voters(id) == {l.userId : l \in {x \in likes : x.inventionId = id}}

VotesAreVoters(result) ==
    \A k \in DOMAIN result :
        result[k]._count.likes + result[k]._count.dislikes = Cardinality(Voters(result[k].id))

\* C29: for every invention of the list, likes plus dislikes is the number of
\* users who currently hold a vote on it.
C29_VotesAreVoters ==
    /\ VotesAreVoters(getInventionsJoin(NoFilters))
    /\ VotesAreVoters(getInventionsLoop(NoFilters))

\* The per-row loop alone reports the voters, and one toggle moves its sum of
\* an invention by at most one.
C29_LoopVotesAreVoters ==
    /\ [] VotesAreVoters(getInventionsLoop(NoFilters))
    /\ [][response'.op = "toggleLike" =>
            \A inv \in inventions :
                LET before == Cardinality({l \in likes : l.inventionId = inv.id})
                    after == Cardinality({l \in likes' : l.inventionId = inv.id})
                IN  after - before \in {-1, 0, 1}]_vars

-----------------------------------------------------------------------------
(* Creation requests with any body and any uploads *)

\* req.body is spread into insertInventionSchema.parse: status and
\* fundingAmount are fields of the schema like any other.
CreateBodies ==
    [tags : {DefaultTags}, status : {None, Some("approved"), Some("archived")},
     fundingAmount : {None, Some(1000)}]

\* file.originalname is the name the client sent.
Uploads == [size : {1}, originalNameLength : {1, MaxOriginalName + 1}]

UploadLists == UNION {[1..n -> Uploads] : n \in 0..MaxCreateFiles}

NextCreate ==
    \/ UpsertUser(AllUserIds[1])
    \/ \E body \in CreateBodies, reqFiles \in UploadLists :
          CreateInvention(AllUserIds[1], body, reqFiles, MaxCreateInventions, MaxCreateInventions)

SpecCreate == Init /\ [][NextCreate]_vars

\* C28: an invention that the create route inserts has status pending and no
\* fundingAmount, whatever the request body carries.
C28_CreatedPendingUnfunded ==
    [][response'.op = "createInvention" =>
        \A inv \in inventions' \ inventions :
            inv.status = "pending" /\ inv.fundingAmount = None]_vars

\* C30: a creation request answered with an error leaves the store without
\* the new invention and without any of its File rows.
C30_CreateAllOrNothing ==
    [][(response'.op = "createInvention" /\ response'.code = 500) =>
        (inventions' = inventions /\ files' = files)]_vars

\* A creation refused before its first INSERT (schema, or a caller without a
\* users row) does leave the store as it was.
C30_RefusedBodyStoresNothing ==
    [][(response'.op = "createInvention" /\ response'.code = 500
            /\ ~insertInventionSchemaOk(response'.args[1])) =>
        (inventions' = inventions /\ files' = files)]_vars

====
